---- MODULE Spec2Model ----
(***************************************************************************)
(* A model of the /detect handler of huggingface_space/app.py: per-frame   *)
(* filtering, greedy three-frame chaining by IoU, the class rules and the  *)
(* synthesis of the AnalysisResult.                                        *)
(*                                                                         *)
(* Numbers.  Box coordinates are integers.  An IoU is kept as the exact    *)
(* fraction num/den that calculate_iou divides, and every comparison with  *)
(* a threshold is done by cross-multiplication; float rounding is not      *)
(* modelled.  A confidence c stands for c/10, and the confidence of the    *)
(* result, conf * 100, is kept in the same unit (800 stands for 80.0).     *)
(* Python lists built with list(set(..)) have no defined order and are     *)
(* kept as sets.                                                           *)
(***************************************************************************)
EXTENDS Integers, Sequences, FiniteSets, TLC

VARIABLES
    payload,    \* the DetectionRequest being served
    pc,         \* "start": request received, "done": detect has returned,
                \* "failed": an exception has left detect
    locals,     \* detect's local variables as they stand when it returns
    response,   \* the AnalysisResult returned
    iouBox1,    \* calculate_iou on its own: first argument
    iouBox2,    \* second argument
    iouOut      \* its outcome

vars == <<payload, pc, locals, response, iouBox1, iouBox2, iouOut>>

-----------------------------------------------------------------------------
(* Bounds of the inputs *)

MaxFrames == 4      \* images in a request
MaxDets == 2        \* boxes the detector returns for one image
MaxBoxes == 3       \* boxes in a whole request (general requests)
MaxTuned == 3       \* boxes in a whole request (zoned and tuned requests)
MaxCrowd == 5       \* boxes in a whole request (three-frame person requests)
GridMax == 3        \* coordinates of the boxes calculate_iou is tried on

-----------------------------------------------------------------------------
(* Helpers *)

Max(a, b) == IF a >= b THEN a ELSE b

Min(a, b) == IF a <= b THEN a ELSE b

Frac(n, d) == [num |-> n, den |-> d]

RECURSIVE Flatten(_)
Flatten(ss) == IF ss = <<>> THEN <<>> ELSE Head(ss) \o Flatten(Tail(ss))

Range(s) == {s[k] : k \in 1..Len(s)}

-----------------------------------------------------------------------------
(* calculate_iou without the clamping of the intersection's sides at 0 *)

iou_unclamped(box1, box2) ==
    LET xA == Max(box1[1], box2[1])
        yA == Max(box1[2], box2[2])
        xB == Min(box1[3], box2[3])
        yB == Min(box1[4], box2[4])
        interArea == (xB - xA) * (yB - yA)
        box1Area == (box1[3] - box1[1]) * (box1[4] - box1[2])
        box2Area == (box2[3] - box2[1]) * (box2[4] - box2[2])
        denom == box1Area + box2Area - interArea
    IN  [raised |-> denom = 0, num |-> interArea, den |-> denom]

(* calculate_iou(box1, box2); a box is <<x1, y1, x2, y2>>.  The division  *)
(* raises ZeroDivisionError when box1Area + box2Area - interArea is 0.    *)

calculate_iou(box1, box2) ==
    LET xA == Max(box1[1], box2[1])
        yA == Max(box1[2], box2[2])
        xB == Min(box1[3], box2[3])
        yB == Min(box1[4], box2[4])
        interArea == Max(0, xB - xA) * Max(0, yB - yA)
        box1Area == (box1[3] - box1[1]) * (box1[4] - box1[2])
        box2Area == (box2[3] - box2[1]) * (box2[4] - box2[2])
        denom == box1Area + box2Area - interArea
    IN  [raised |-> denom = 0, num |-> interArea, den |-> denom]

\* iou > t, for an iou that did not raise (den is then not 0) and t.den > 0
Greater(iou, t) ==
    IF iou.den > 0 THEN iou.num * t.den > t.num * iou.den
                   ELSE iou.num * t.den < t.num * iou.den

\* int(x * 100) for x = f.num / f.den >= 0
Percent(f) == (100 * f.num) \div f.den

\* f"{x:.2f}" for x = f.num / f.den >= 0, in hundredths
TwoDecimals(f) == (200 * f.num + f.den) \div (2 * f.den)

-----------------------------------------------------------------------------
(* The zone.  zone_points is a list of points, <<>> when absent; a point   *)
(* is <<Frac, Frac>>.  The polygons of the model are axis-aligned          *)
(* rectangles, for which Polygon.contains is the open rectangle.           *)

zone_poly_of(zone_points) ==
    IF Len(zone_points) >= 3 THEN zone_points ELSE <<>>

\* a < b for fractions with positive denominators
Less(a, b) == a.num * b.den < b.num * a.den

PolygonContains(poly, cx, cy) ==
    /\ \E p \in Range(poly) : Less(p[1], cx)
    /\ \E p \in Range(poly) : Less(cx, p[1])
    /\ \E p \in Range(poly) : Less(p[2], cy)
    /\ \E p \in Range(poly) : Less(cy, p[2])

is_inside_zone(box, zone_poly, width, height) ==
    IF zone_poly = <<>>
    THEN TRUE
    ELSE LET cx == Frac(box[1] + box[3], 2 * width)
             cy == Frac(box[2] + box[4], 2 * height)
         IN  PolygonContains(zone_poly, cx, cy)

-----------------------------------------------------------------------------
(* Step 1 of detect: the per-frame filter.  An image is                    *)
(* [valid, w, h, boxes]: whether base64_to_cv2 decodes it, its size, and   *)
(* what the detector returns for it, a list of [cls_name, conf, xyxy].     *)

TrackedClasses == {"person", "car", "motorcycle", "truck", "bus"}

Vehicles == {"car", "motorcycle", "truck", "bus"}

Survives(b, img, zone_poly) ==
    /\ b.cls_name \in TrackedClasses
    /\ zone_poly = <<>> \/ is_inside_zone(b.xyxy, zone_poly, img.w, img.h)

frame_dets_of(img, zone_poly) ==
    LET kept == SelectSeq(img.boxes, LAMBDA b : Survives(b, img, zone_poly))
    IN  [k \in 1..Len(kept) |->
            [class |-> kept[k].cls_name, box |-> kept[k].xyxy, conf |-> kept[k].conf]]

frames_detections_of(images, zone_poly) ==
    [k \in 1..Len(images) |-> frame_dets_of(images[k], zone_poly)]

-----------------------------------------------------------------------------
(* Step 2: chaining and rules *)

LooseMatch == Frac(1, 10)

DefaultPersonThreshold == Frac(6, 10)

DefaultVehicleThreshold == Frac(9, 10)

\* The scan "for det in frame: if det.class == obj_class and iou > 0.1: break":
\* the index of the first match from position k on, 0 when there is none,
\* -1 when calculate_iou raises before a match is found.
RECURSIVE first_match(_, _, _, _)
first_match(frame, obj_class, box, k) ==
    IF k > Len(frame) THEN 0
    ELSE IF frame[k].class # obj_class THEN first_match(frame, obj_class, box, k + 1)
    ELSE LET r == calculate_iou(box, frame[k].box)
         IN  IF r.raised THEN -1
             ELSE IF Greater(r, LooseMatch) THEN k
             ELSE first_match(frame, obj_class, box, k + 1)

NoReason == <<>>

Reason(kind, cls, pct, thr, iou2) ==
    [kind |-> kind, class |-> cls, pct |-> pct, thr |-> thr, iou |-> iou2]

person_threshold(p) ==
    IF p.person_iou_threshold.given THEN p.person_iou_threshold.value
                                    ELSE DefaultPersonThreshold

vehicle_threshold(p) ==
    IF p.vehicle_iou_threshold.given THEN p.vehicle_iou_threshold.value
                                     ELSE DefaultVehicleThreshold

ignore_moving(p) ==
    IF p.ignore_moving_persons # "None" THEN p.ignore_moving_persons = "True"
                                        ELSE TRUE

\* The RULES block: the reasons (none or one) a completed chain appends
rules(obj_class, iou_1_3, p) ==
    IF obj_class = "person"
    THEN IF Greater(iou_1_3, person_threshold(p))
         THEN <<Reason("loitering", obj_class, Percent(iou_1_3),
                       Percent(person_threshold(p)), 0)>>
         ELSE IF ~ignore_moving(p)
         THEN <<Reason("moving", obj_class, 0, 0, TwoDecimals(iou_1_3))>>
         ELSE NoReason
    ELSE IF obj_class \in Vehicles
    THEN IF Greater(iou_1_3, vehicle_threshold(p))
         THEN <<Reason("parked", obj_class, Percent(iou_1_3), 0, 0)>>
         ELSE NoReason
    ELSE NoReason

\* A sliding window: the chain ends in the last frame of the request
LastFrame(fd) == Len(fd)

\* The indices of the frames the chain is searched in (Python 1 and 2)
SecondFrame(fd) == 2

ThirdFrame(fd) == 3

\* What one pass of "for bet in first_frame_dets" leaves: match_f2 and
\* match_f3 as indices (0: None), whether an exception was raised, and the
\* reasons appended to alerts
Pass(m2, m3, raised, reasons) ==
    [match_f2 |-> m2, match_f3 |-> m3, raised |-> raised, reasons |-> reasons]

\* "if match_f2 and match_f3": iou_1_3 and the rules
judge(bet, p, m2, m3, iou_1_3) ==
    IF iou_1_3.raised THEN Pass(m2, m3, TRUE, NoReason)
    ELSE Pass(m2, m3, FALSE, rules(bet.class, iou_1_3, p))

\* After the scan of frame 3 has given m3
after_f3(fd, bet, p, m2, m3) ==
    IF m3 = -1 THEN Pass(m2, 0, TRUE, NoReason)
    ELSE IF m3 = 0 THEN Pass(m2, 0, FALSE, NoReason)
    ELSE judge(bet, p, m2, m3, calculate_iou(bet.box, fd[ThirdFrame(fd)][m3].box))

\* After the scan of frame 2 has given m2: "if match_f2:" scans frame 3
\* against the box of match_f2
after_f2(fd, bet, p, m2) ==
    IF m2 = -1 THEN Pass(0, 0, TRUE, NoReason)
    ELSE IF m2 = 0 THEN Pass(0, 0, FALSE, NoReason)
    ELSE after_f3(fd, bet, p, m2,
                  first_match(fd[ThirdFrame(fd)], bet.class,
                              fd[SecondFrame(fd)][m2].box, 1))

\* One pass of the loop for the frame-0 detection bet
track_one(fd, bet, p) ==
    after_f2(fd, bet, p, first_match(fd[SecondFrame(fd)], bet.class, bet.box, 1))

\* The locals after a pass: detected_types.add(obj_class), then the pass
accumulate(acc, obj_class, one) ==
    [acc EXCEPT !.detected_types = @ \cup {obj_class},
                !.chains = Append(@, one),
                !.alerts = @ \o one.reasons,
                !.raised = one.raised]

\* The loop over first_frame_dets from anchor i on; an exception ends it
RECURSIVE track(_, _, _, _)
track(fd, p, i, acc) ==
    IF i > Len(fd[1]) THEN acc
    ELSE LET nxt == accumulate(acc, fd[1][i].class, track_one(fd, fd[1][i], p))
         IN  IF nxt.raised THEN nxt ELSE track(fd, p, i + 1, nxt)

\* The confidence of the first object instead of the greatest
first_conf_of(objs) == IF objs = <<>> THEN 0 ELSE Head(objs).conf

RECURSIVE max_conf_of(_)
max_conf_of(objs) ==
    IF objs = <<>> THEN 0 ELSE Max(Head(objs).conf, max_conf_of(Tail(objs)))

has_person_of(all_objs) == \E k \in 1..Len(all_objs) : all_objs[k].class = "person"

-----------------------------------------------------------------------------
(* The AnalysisResult and the locals kept for inspection *)

Result(alert, msg, names, reasons, confidence, objects) ==
    [shouldAlert |-> alert,
     description |-> [msg |-> msg, names |-> names, reasons |-> reasons],
     confidence |-> confidence,
     detectedObjects |-> objects]

NoLocals ==
    [frames_detections |-> <<>>, has_person |-> FALSE, max_conf |-> 0,
     detected_types |-> {}, chains |-> <<>>, alerts |-> <<>>, raised |-> FALSE]

NoResult == Result(FALSE, "", {}, {}, 0, {})

ServerError == Result(FALSE, "Server Error", {}, {}, 0, {})

\* The fallback looking at the first frame instead of the last
fallback_on_first(fd) ==
    LET first_frame_dets == IF fd # <<>> THEN fd[1] ELSE <<>>
        det_names == {first_frame_dets[k].class : k \in 1..Len(first_frame_dets)}
    IN  IF first_frame_dets # <<>>
        THEN Result(TRUE, "Insufficient frames", det_names, {},
                    first_frame_dets[1].conf * 100, det_names)
        ELSE Result(FALSE, "No objects", {}, {}, 0, {})

\* The fallback of fewer than 3 frames
fallback(fd) ==
    LET last_frame_dets == IF fd # <<>> THEN fd[Len(fd)] ELSE <<>>
        det_names == {last_frame_dets[k].class : k \in 1..Len(last_frame_dets)}
    IN  IF last_frame_dets # <<>>
        THEN Result(TRUE, "Insufficient frames", det_names, {},
                    last_frame_dets[1].conf * 100, det_names)
        ELSE Result(FALSE, "No objects", {}, {}, 0, {})

\* The result of the chaining path, from the locals the loop left
synthesize(l) ==
    IF l.alerts = <<>>
    THEN IF l.has_person
         THEN Result(TRUE, "Person unclear motion", {}, {},
                     l.max_conf * 100, l.detected_types)
         ELSE Result(FALSE, "Vehicles ignored", {}, {}, 0, l.detected_types)
    ELSE Result(TRUE, "Alerts", {}, Range(l.alerts),
                l.max_conf * 100, l.detected_types)

\* The end of the chaining path: the exception, or the result
finish(l) ==
    IF l.raised THEN [locals |-> l, response |-> NoResult]
    ELSE [locals |-> l, response |-> synthesize(l)]

\* The chaining path, for 3 frames or more
analyze_chains(fd, p, all_objs) ==
    IF all_objs = <<>>
    THEN [locals |-> [NoLocals EXCEPT !.frames_detections = fd],
          response |-> Result(FALSE, "No objects in zone", {}, {}, 0, {})]
    ELSE finish(track(fd, p, 1,
                      [NoLocals EXCEPT !.frames_detections = fd,
                                       !.has_person = has_person_of(all_objs),
                                       !.max_conf = max_conf_of(all_objs)]))

\* Step 2 of detect, from frames_detections on: the locals at the return (or
\* at the exception) and the result returned
analyze(fd, p) ==
    IF Len(fd) < 3
    THEN [locals |-> [NoLocals EXCEPT !.frames_detections = fd],
          response |-> fallback(fd)]
    ELSE analyze_chains(fd, p, Flatten(fd))

\* The body of the try block: locals.raised tells that it raised
detect_body(p) ==
    IF Len(p.images) = 0
    THEN [locals |-> NoLocals,
          response |-> Result(FALSE, "No images", {}, {}, 0, {})]
    ELSE IF \E k \in 1..Len(p.images) : ~p.images[k].valid
    THEN [locals |-> [NoLocals EXCEPT !.raised = TRUE], response |-> NoResult]
    ELSE analyze(frames_detections_of(p.images, zone_poly_of(p.zone_points)), p)

\* detect without its except clause: an exception of the body leaves detect
no_except_clause(body) ==
    [locals |-> body.locals, response |-> body.response,
     escaped |-> body.locals.raised]

\* "except Exception as e": what the handler makes of the body's outcome;
\* escaped tells that an exception leaves detect
except_clause(body) ==
    IF body.locals.raised
    THEN [locals |-> body.locals, response |-> ServerError, escaped |-> FALSE]
    ELSE [locals |-> body.locals, response |-> body.response, escaped |-> FALSE]

detect(p) == except_clause(detect_body(p))

-----------------------------------------------------------------------------
(* The requests tried *)

BoxA == <<0, 0, 4, 2>>

BoxA1 == <<1, 0, 5, 2>>     \* IoU with BoxA: 6/10

BoxB == <<3, 1, 6, 2>>      \* IoU with BoxA: 1/10, with BoxA1: 2/9

BoxZ == <<1, 1, 1, 1>>      \* no area

Raw(cls, conf, xyxy) == [cls_name |-> cls, conf |-> conf, xyxy |-> xyxy]

PersonBoxes ==
    {Raw("person", 9, BoxA), Raw("person", 5, BoxA1), Raw("person", 7, BoxB),
     Raw("person", 6, BoxZ)}

TunedBoxes ==
    {Raw("person", 9, BoxA), Raw("person", 5, BoxA1), Raw("person", 7, BoxB),
     Raw("car", 8, BoxA)}

LongBoxes == {Raw("person", 9, BoxA), Raw("person", 5, BoxA1), Raw("car", 8, BoxA)}

RawBoxes ==
    {Raw("person", 9, BoxA), Raw("person", 5, BoxA1), Raw("person", 6, BoxZ),
     Raw("car", 8, BoxA), Raw("dog", 10, BoxA)}

Image(boxes) == [valid |-> TRUE, w |-> 8, h |-> 4, boxes |-> boxes]

Corrupt == [valid |-> FALSE, w |-> 0, h |-> 0, boxes |-> <<>>]

\* A shape gives, for each image of a request, the number of boxes the
\* detector returns for it, or -1 for an image that does not decode (counted
\* as one box)
Cost(c) == IF c = -1 THEN 1 ELSE c

RECURSIVE Total(_, _)
Total(sh, k) == IF k = 0 THEN 0 ELSE Cost(sh[k]) + Total(sh, k - 1)

Shapes(n, budget) == {sh \in [1..n -> -1..MaxDets] : Total(sh, n) <= budget}

DecodedShapes(n, budget) == {sh \in Shapes(n, budget) : \A k \in 1..n : sh[k] # -1}

\* The images of shape sh whose boxes are, in order, those of flat
Build(sh, flat) ==
    [k \in 1..Len(sh) |->
        IF sh[k] = -1 THEN Corrupt
        ELSE LET skip == Total(sh, k - 1) - Cardinality({j \in 1..(k - 1) : sh[j] = -1})
             IN  Image([j \in 1..sh[k] |-> flat[skip + j]])]

BoxCount(sh) == Total(sh, Len(sh)) - Cardinality({j \in 1..Len(sh) : sh[j] = -1})

NoThreshold == [given |-> FALSE, value |-> Frac(0, 1)]

Given(t) == [given |-> TRUE, value |-> t]

LeftHalf ==
    <<<<Frac(0, 1), Frac(0, 1)>>, <<Frac(1, 2), Frac(0, 1)>>,
      <<Frac(1, 2), Frac(1, 1)>>, <<Frac(0, 1), Frac(1, 1)>>>>

Request(images, zone, pt, vt, im) ==
    [images |-> images, zone_points |-> zone, person_iou_threshold |-> pt,
     vehicle_iou_threshold |-> vt, ignore_moving_persons |-> im]

\* p is a request of any shape, with the default settings and no zone
GeneralRequest(p) ==
    \E n \in 0..MaxFrames : \E sh \in Shapes(n, MaxBoxes) :
    \E flat \in [1..BoxCount(sh) -> RawBoxes] :
        p = Request(Build(sh, flat), <<>>, NoThreshold, NoThreshold, "None")

\* p is a request with zone_points given
ZonedRequest(p) ==
    \E n \in 1..3 : \E sh \in Shapes(n, MaxTuned - 1) :
    \E flat \in [1..BoxCount(sh) -> RawBoxes] :
    \E zone \in {SubSeq(LeftHalf, 1, 2), LeftHalf} :
        p = Request(Build(sh, flat), zone, NoThreshold, NoThreshold, "None")

\* p is a three-frame request under some setting of the thresholds
TunedRequest(p) ==
    \E sh \in DecodedShapes(3, MaxTuned) : \E flat \in [1..BoxCount(sh) -> TunedBoxes] :
    \E pt \in {NoThreshold, Given(Frac(1, 10))} :
    \E vt \in {NoThreshold, Given(Frac(1, 1))} :
    \E im \in {"None", "True", "False"} :
        p = Request(Build(sh, flat), <<>>, pt, vt, im)

\* p is a request of MaxFrames images, all of which decode
LongRequest(p) ==
    \E sh \in DecodedShapes(MaxFrames, MaxBoxes + 1) :
    \E flat \in [1..BoxCount(sh) -> LongBoxes] :
        p = Request(Build(sh, flat), <<>>, NoThreshold, NoThreshold, "None")

\* p is a three-frame request with several persons
CrowdRequest(p) ==
    \E sh \in DecodedShapes(3, MaxCrowd) : \E flat \in [1..BoxCount(sh) -> PersonBoxes] :
    \E im \in {"None", "False"} :
        p = Request(Build(sh, flat), <<>>, NoThreshold, NoThreshold, im)

GridBoxes ==
    {<<x1, y1, x2, y2>> : x1 \in 0..GridMax, y1 \in 0..GridMax,
                          x2 \in 0..GridMax, y2 \in 0..GridMax}

NoIou == [raised |-> FALSE, num |-> 0, den |-> 0]

-----------------------------------------------------------------------------
(* The handler as a state machine *)

Init ==
    /\ \/ GeneralRequest(payload)
       \/ ZonedRequest(payload)
       \/ TunedRequest(payload)
       \/ LongRequest(payload)
       \/ CrowdRequest(payload)
    /\ pc = "start"
    /\ locals = NoLocals
    /\ response = NoResult
    /\ iouBox1 = <<0, 0, 0, 0>>
    /\ iouBox2 = <<0, 0, 0, 0>>
    /\ iouOut = NoIou

\* detect ends with out: a result returned, or an exception leaving it
Returns(out) ==
    /\ locals' = out.locals
    /\ response' = out.response
    /\ pc' = IF out.escaped THEN "failed" ELSE "done"

Detect ==
    /\ pc = "start"
    /\ Returns(detect(payload))
    /\ UNCHANGED <<payload, iouBox1, iouBox2, iouOut>>

Next == Detect

Spec == Init /\ [][Next]_vars

(* calculate_iou on its own, over every pair of boxes of a small grid *)

IouInit ==
    /\ payload = Request(<<>>, <<>>, NoThreshold, NoThreshold, "None")
    /\ pc = "start"
    /\ locals = NoLocals
    /\ response = NoResult
    /\ iouBox1 \in {b \in GridBoxes : b[1] <= b[3] /\ b[2] <= b[4]}
    /\ iouBox2 \in {b \in GridBoxes : b[1] <= b[3] /\ b[2] <= b[4]}
    /\ iouOut = NoIou

CalculateIou ==
    /\ pc = "start"
    /\ iouOut' = calculate_iou(iouBox1, iouBox2)
    /\ pc' = "done"
    /\ UNCHANGED <<payload, locals, response, iouBox1, iouBox2>>

IouNext == CalculateIou

IouSpec == IouInit /\ [][IouNext]_vars

-----------------------------------------------------------------------------
(* What the properties speak of *)

Done == pc = "done"

NFrames == Len(payload.images)

Decoded == \A k \in 1..NFrames : payload.images[k].valid

\* The frames after the per-frame filter
Frames == frames_detections_of(payload.images, zone_poly_of(payload.zone_points))

AllFiltered == UNION {Range(Frames[k]) : k \in 1..NFrames}

ClassesSeen == {d.class : d \in AllFiltered}

ClassesIn(frame) == {frame[k].class : k \in 1..Len(frame)}

MaxSeen == CHOOSE c \in {d.conf : d \in AllFiltered} : \A d \in AllFiltered : d.conf <= c

PersonSeen == \E d \in AllFiltered : d.class = "person"

Msg == response.description.msg

\* The overlap ratio of two boxes as the specification has it: 0 for two
\* boxes without area
Overlap(a, b) ==
    LET r == calculate_iou(a, b) IN IF r.raised THEN Frac(0, 1) ELSE Frac(r.num, r.den)

Exceeds(f, t) == f.num * t.den > t.num * f.den

\* The first detection of frame, in list order, of class cls that overlaps
\* box by more than 1/10; 0 when there is none
FirstMatching(frame, cls, box) ==
    LET ok == {k \in 1..Len(frame) :
                  frame[k].class = cls /\ Exceeds(Overlap(box, frame[k].box), Frac(1, 10))}
    IN  IF ok = {} THEN 0 ELSE CHOOSE k \in ok : \A j \in ok : k <= j

\* The chain of the frame-0 detection i: d1 and d2 as indices, 0 for none
ChainOf(i) ==
    LET d0 == Frames[1][i]
        d1 == FirstMatching(Frames[2], d0.class, d0.box)
        d2 == IF d1 = 0 THEN 0 ELSE FirstMatching(Frames[3], d0.class, Frames[2][d1].box)
    IN  [d1 |-> d1, d2 |-> d2]

Completed(i) == ChainOf(i).d1 > 0 /\ ChainOf(i).d2 > 0

HeadTail(i) == Overlap(Frames[1][i].box, Frames[3][ChainOf(i).d2].box)

\* The reasons detect appended for the frame-0 detection i
Emitted(i) == IF i <= Len(locals.chains) THEN locals.chains[i].reasons ELSE <<>>

EmittedKinds(i) == {Emitted(i)[k].kind : k \in 1..Len(Emitted(i))}

-----------------------------------------------------------------------------
(* C1 *)

\* C1, as claimed: whenever the result of a request with at least one frame
\* alerts, its confidence is 100 x the greatest confidence among the filtered
\* detections of all frames, on every path (the fallback of fewer than 3
\* frames included).
C1_ConfidenceIsGlobalMax ==
    (Done /\ NFrames >= 1 /\ response.shouldAlert)
        => response.confidence = 100 * MaxSeen

\* C1, amended: with 3 or more frames an alerting result carries 100 x the
\* greatest confidence among the filtered detections of all frames; with 1 or
\* 2 frames it carries 100 x the confidence of the first filtered detection of
\* the last frame.
C1_ConfidenceByPath ==
    (Done /\ NFrames >= 1 /\ response.shouldAlert)
        => IF NFrames >= 3
           THEN response.confidence = 100 * MaxSeen
           ELSE response.confidence = 100 * Frames[NFrames][1].conf

\* An alert from the rules whose confidence comes from a frame after the first
C1_MaxOutsideFirstFrame ==
    /\ Done /\ NFrames >= 3 /\ response.shouldAlert /\ Msg = "Alerts"
    /\ \A k \in 1..Len(Frames[1]) : Frames[1][k].conf < MaxSeen
    /\ response.confidence = 100 * MaxSeen

-----------------------------------------------------------------------------
(* C2 *)

HasArea(box) == (box[3] - box[1]) * (box[4] - box[2]) # 0

\* The frames with every box without area moved to a unit box of its own,
\* away from every other box: it then overlaps nothing, as a box without area
\* overlaps nothing
Apart(fd) ==
    [k \in 1..Len(fd) |->
        [j \in 1..Len(fd[k]) |->
            IF HasArea(fd[k][j].box) THEN fd[k][j]
            ELSE [fd[k][j] EXCEPT
                    !.box = <<100 * k + 10 * j, 100, 100 * k + 10 * j + 1, 101>>]]]

\* C2: a division by zero in the overlap of two boxes without area is no
\* fault: the pair counts as not matching, and the request gets the result it
\* would get if the two boxes did not overlap.
C2_ZeroAreaPairIsNoMatch ==
    (Done /\ NFrames >= 1 /\ Decoded)
        => response = analyze(Apart(Frames), payload).response

-----------------------------------------------------------------------------
(* C3 *)

\* C3: detect always returns a result: no exception leaves it, and an
\* evaluation that raised returns shouldAlert = false, confidence 0, no
\* detected class and the diagnostic message.
C3_FaultBecomesDecision ==
    /\ pc # "failed"
    /\ (Done /\ locals.raised)
          => /\ ~response.shouldAlert
             /\ response.confidence = 0
             /\ response.detectedObjects = {}
             /\ Msg = "Server Error"

\* An exception raised by the chaining after a reason had been appended
C3_FaultAfterReason == Done /\ Decoded /\ locals.raised /\ locals.alerts # <<>>

-----------------------------------------------------------------------------
(* C4 *)

\* C4: with 3 or more frames, no filtered detection in any frame gives no
\* alert, confidence 0 and no class; otherwise the result alerts exactly when
\* the rules gave a reason or a person is among the filtered detections, and
\* when neither holds it is "vehicles moving (ignored)" with no alert and
\* confidence 0.
C4_DecisionOrder ==
    (Done /\ NFrames >= 3 /\ Decoded)
        => IF AllFiltered = {}
           THEN /\ ~response.shouldAlert
                /\ response.confidence = 0
                /\ response.detectedObjects = {}
           ELSE /\ response.shouldAlert <=> (locals.alerts # <<>> \/ PersonSeen)
                /\ ~(locals.alerts # <<>> \/ PersonSeen)
                      => /\ Msg = "Vehicles ignored"
                         /\ response.confidence = 0

\* The same for the evaluations that raise nothing
C4_DecisionOrderUnlessRaised == locals.raised \/ C4_DecisionOrder

-----------------------------------------------------------------------------
(* C5 *)

\* C5: with 1 or 2 frames nothing is chained and the result depends on the
\* filtered detections of the last frame only: it alerts exactly when there is
\* one, with the classes of that frame and the "insufficient frames" reason;
\* otherwise no alert, "no objects detected", confidence 0 and no class.
C5_Fallback ==
    (Done /\ NFrames \in {1, 2} /\ Decoded)
        => LET last == Frames[NFrames]
           IN  /\ locals.chains = <<>> /\ locals.alerts = <<>>
               /\ response.shouldAlert <=> last # <<>>
               /\ last # <<>>
                     => /\ Msg = "Insufficient frames"
                        /\ response.description.names = ClassesIn(last)
                        /\ response.detectedObjects = ClassesIn(last)
               /\ last = <<>>
                     => /\ Msg = "No objects"
                        /\ response.confidence = 0
                        /\ response.detectedObjects = {}

\* Two frames, detections in the first one only: no alert
C5_EarlierFrameIgnored ==
    /\ Done /\ NFrames = 2 /\ Decoded
    /\ Frames[1] # <<>> /\ Frames[2] = <<>>
    /\ ~response.shouldAlert /\ Msg = "No objects"

-----------------------------------------------------------------------------
(* C6 *)

\* C6: with 3 or more frames, filtered detections and no reason from the
\* rules (both outcomes), detectedObjects is the set of the classes of the
\* filtered detections of all frames.
C6_AllClassesReported ==
    (Done /\ NFrames >= 3 /\ Decoded /\ AllFiltered # {}
          /\ Msg \in {"Person unclear motion", "Vehicles ignored"})
        => response.detectedObjects = ClassesSeen

-----------------------------------------------------------------------------
(* C7 *)

\* C7: with 3 or more frames, the reasons of the rules and the classes of the
\* chain anchors are those of the first three frames alone: the frames from
\* the fourth on do not change them.
C7_OnlyFirstThreeFrames ==
    (Done /\ NFrames >= 3 /\ Decoded)
        => LET first3 == track(SubSeq(Frames, 1, 3), payload, 1, NoLocals)
           IN  /\ locals.alerts = first3.alerts
               /\ locals.detected_types = first3.detected_types
               /\ locals.raised = first3.raised
               /\ Msg = "Alerts" => response.description.reasons = Range(first3.alerts)

\* A fourth frame that differs from the third, under a chain that gave a reason
C7_FourthFrameIgnored ==
    /\ Done /\ NFrames >= 4 /\ Decoded
    /\ Frames[4] # <<>> /\ Frames[4] # Frames[3]
    /\ locals.alerts # <<>> /\ Msg = "Alerts"

-----------------------------------------------------------------------------
(* C8 *)

WellFormed(box) == box[1] < box[3] /\ box[2] < box[4]

Apartness(a, b) == a[3] <= b[1] \/ b[3] <= a[1] \/ a[4] <= b[2] \/ b[4] <= a[2]

\* C8: for well-formed boxes the overlap ratio is symmetric, is 1 of a box
\* with itself, lies between 0 and 1, and is 0 for boxes that do not intersect.
C8_OverlapLaws ==
    (Done /\ WellFormed(iouBox1) /\ WellFormed(iouBox2))
        => LET swapped == calculate_iou(iouBox2, iouBox1)
           IN  /\ ~iouOut.raised /\ iouOut.den > 0
               /\ iouOut.num * swapped.den = swapped.num * iouOut.den
               /\ 0 <= iouOut.num /\ iouOut.num <= iouOut.den
               /\ iouBox1 = iouBox2 => iouOut.num = iouOut.den
               /\ Apartness(iouBox1, iouBox2) => iouOut.num = 0

\* Two well-formed boxes apart in both directions (both differences negative)
C8_ApartInBothDirections ==
    /\ Done /\ WellFormed(iouBox1) /\ WellFormed(iouBox2)
    /\ iouBox1[3] < iouBox2[1] /\ iouBox1[4] < iouBox2[2]
    /\ iouOut.num = 0 /\ iouOut.den > 0

-----------------------------------------------------------------------------
(* C9 *)

\* C9: the rules judge a completed chain (d0, d1, d2) by the overlap of d0 and
\* d2, compared strictly: a vehicle chain gives a reason exactly when it
\* exceeds the vehicle threshold; a person chain gives the loitering reason
\* exactly when it exceeds the person threshold, the moving reason exactly when
\* it does not and moving persons are not ignored, and nothing otherwise; so
\* with moving persons not ignored every completed person chain alerts.
C9_RulesOnHeadTail ==
    (Done /\ NFrames >= 3 /\ Decoded)
        => \A i \in 1..Len(Frames[1]) :
              Completed(i) =>
                 LET cls == Frames[1][i].class
                     over == HeadTail(i)
                 IN  /\ cls \in Vehicles =>
                          /\ Emitted(i) # <<>> <=> Exceeds(over, vehicle_threshold(payload))
                          /\ EmittedKinds(i) \subseteq {"parked"}
                     /\ cls = "person" =>
                          /\ "loitering" \in EmittedKinds(i)
                                <=> Exceeds(over, person_threshold(payload))
                          /\ "moving" \in EmittedKinds(i)
                                <=> /\ ~Exceeds(over, person_threshold(payload))
                                    /\ payload.ignore_moving_persons = "False"
                          /\ Len(Emitted(i)) <= 1
                          /\ payload.ignore_moving_persons = "False" => response.shouldAlert

\* The same for the evaluations that raise nothing
C9_RulesOnHeadTailUnlessRaised == locals.raised \/ C9_RulesOnHeadTail

-----------------------------------------------------------------------------
(* C10 *)

\* C10: for every frame-0 detection d0, d1 is the first detection of frame 1
\* of d0's class overlapping d0 by more than 0.1 and d2 the first of frame 2
\* of that class overlapping d1 by more than 0.1; a chain is completed only
\* when both exist, so its three detections have one class; a d0 without a
\* completed chain gives no reason and still has its class among the detected
\* classes.
C10_GreedyChains ==
    (Done /\ NFrames >= 3 /\ Decoded)
        => \A i \in 1..Len(Frames[1]) :
              /\ i <= Len(locals.chains)
              /\ locals.chains[i].match_f2 = ChainOf(i).d1
              /\ locals.chains[i].match_f3 = ChainOf(i).d2
              /\ Completed(i) =>
                    /\ Frames[2][ChainOf(i).d1].class = Frames[1][i].class
                    /\ Frames[3][ChainOf(i).d2].class = Frames[1][i].class
              /\ ~Completed(i) =>
                    /\ Emitted(i) = <<>>
                    /\ Frames[1][i].class \in response.detectedObjects

\* The same for the evaluations that raise nothing
C10_GreedyChainsUnlessRaised == locals.raised \/ C10_GreedyChains

\* Two frame-0 detections whose chains share their frame-1 detection
C10_SharedMatch ==
    /\ Done /\ NFrames >= 3 /\ Decoded /\ ~locals.raised
    /\ \E i, j \in 1..Len(Frames[1]) :
          /\ i < j /\ Completed(i) /\ Completed(j)
          /\ locals.chains[i].match_f2 = locals.chains[j].match_f2

====
